---- MODULE Spec2Model ----
(***************************************************************************)
(* Model of the Python launcher library (src/src/lib.rs): the version      *)
(* model (ExactVersion, RequestedVersion), executable discovery            *)
(* (flatten_directories, all_executables_in_paths, all_executables) and    *)
(* resolution (find_executable_in_hashmap).                                *)
(*                                                                         *)
(* A string is a sequence of characters; a character is a one-element      *)
(* label ("3", ".", "e_acute").  A file name (OsStr) is a sequence of      *)
(* characters that may also hold the unit "0xFF", a byte that is not       *)
(* valid UTF-8.  "e_acute" is a character of two UTF-8 bytes.              *)
(***************************************************************************)
EXTENDS Integers, Sequences, FiniteSets

\* Bounds of the model.
MaxLen == 3
MaxPaths == 3
MaxDirs == 2
MaxEntries == 1
MaxMapSize == 3

VARIABLES
  pc,              \* position of the running operation
  directories,     \* the search path: a sequence of [readable, entries]
  dir_index,       \* number of directories flatten_directories has consumed
  paths,           \* the paths the iterator has yielded so far
  path_index,      \* number of paths the for loop has consumed
  executables,     \* HashMap<ExactVersion, PathBuf>
  requested,       \* the RequestedVersion handed to find_executable_in_hashmap
  iter_order,      \* the order in which HashMap::iter() yields the keys
  found,           \* Option<PathBuf> returned by find_executable_in_hashmap
  version_string,  \* the &str handed to a from_str
  path,            \* the &Path handed to from_path
  outcome,         \* the Result<..> of the parse
  text,            \* the String returned by ExactVersion::to_string
  reparsed         \* the Result of parsing `text` again

vars == <<pc, directories, dir_index, paths, path_index, executables, requested,
          iter_order, found, version_string, path, outcome, text, reparsed>>

discoveryVars == <<directories, dir_index, paths, path_index>>
findVars == <<requested, iter_order, found>>
parseVars == <<version_string, path, outcome, text, reparsed>>

----------------------------------------------------------------------------
\* Result, Option and the Error enum.

Ok(v) == [ok |-> TRUE, val |-> v]
Err(e) == [ok |-> FALSE, err |-> e]
None == [some |-> FALSE]
Some(v) == [some |-> TRUE, val |-> v]

ParseVersionComponentError(int_error) ==
  [kind |-> "ParseVersionComponentError", int_error |-> int_error]
DotMissing == [kind |-> "DotMissing"]
FileNameMissing == [kind |-> "FileNameMissing"]
FileNameToStrError == [kind |-> "FileNameToStrError"]
PathFileNameError == [kind |-> "PathFileNameError"]

\* ComponentSize = u16.
U16_MAX == 65535

----------------------------------------------------------------------------
\* Characters.

Digits == {"0", "1", "2", "3", "4", "5", "6", "7", "8", "9"}

DigitValue(c) ==
  CASE c = "0" -> 0 [] c = "1" -> 1 [] c = "2" -> 2 [] c = "3" -> 3
    [] c = "4" -> 4 [] c = "5" -> 5 [] c = "6" -> 6 [] c = "7" -> 7
    [] c = "8" -> 8 [] c = "9" -> 9

DigitChar(d) ==
  CASE d = 0 -> "0" [] d = 1 -> "1" [] d = 2 -> "2" [] d = 3 -> "3"
    [] d = 4 -> "4" [] d = 5 -> "5" [] d = 6 -> "6" [] d = 7 -> "7"
    [] d = 8 -> "8" [] d = 9 -> "9"

\* Number of UTF-8 bytes of a character (str::len counts bytes).
ByteLen(c) == IF c = "e_acute" THEN 2 ELSE 1

RECURSIVE StrLen(_)
StrLen(s) == IF s = <<>> THEN 0 ELSE ByteLen(Head(s)) + StrLen(Tail(s))

\* OsStr::to_str: None unless the file name is valid Unicode.
to_str(raw_file_name) ==
  IF \E i \in 1..Len(raw_file_name) : raw_file_name[i] = "0xFF"
  THEN None
  ELSE Some(raw_file_name)

Python == <<"p", "y", "t", "h", "o", "n">>
Python3_0 == Python \o <<"3", ".", "0">>

starts_with(s, prefix) ==
  /\ Len(s) >= Len(prefix)
  /\ SubSeq(s, 1, Len(prefix)) = prefix

\* str::find('.'): the index of the first '.', 0 when there is none.
RECURSIVE FindFrom(_, _, _)
FindFrom(s, c, i) ==
  IF i > Len(s) THEN 0
  ELSE IF s[i] = c THEN i
  ELSE FindFrom(s, c, i + 1)

find(s, c) == FindFrom(s, c, 1)

contains(s, c) == \E i \in 1..Len(s) : s[i] = c

----------------------------------------------------------------------------
\* str::parse::<ComponentSize>(), that is u16::from_str: an optional '+',
\* then decimal digits accumulated left to right with checked arithmetic.
\* (A lone "+" is reported as InvalidDigit, as current Rust does; older
\* releases reported Empty.  Either way it is a ParseIntError.)

RECURSIVE ParseDigits(_, _, _)
ParseDigits(digits, i, result) ==
  IF i > Len(digits) THEN Ok(result)
  ELSE IF digits[i] \notin Digits THEN Err("InvalidDigit")
  ELSE IF result * 10 > U16_MAX THEN Err("PosOverflow")
  ELSE IF result * 10 + DigitValue(digits[i]) > U16_MAX THEN Err("PosOverflow")
  ELSE ParseDigits(digits, i + 1, result * 10 + DigitValue(digits[i]))

parse_ComponentSize(src) ==
  IF src = <<>> THEN Err("Empty")
  ELSE LET digits == IF src[1] = "+" THEN Tail(src) ELSE src
       IN  IF digits = <<>> THEN Err("InvalidDigit")
           ELSE ParseDigits(digits, 1, 0)

\* Display for u16: the decimal digits, no sign, no leading zero.
RECURSIVE fmt_ComponentSize(_)
fmt_ComponentSize(n) ==
  IF n < 10 THEN <<DigitChar(n)>>
  ELSE Append(fmt_ComponentSize(n \div 10), DigitChar(n % 10))

----------------------------------------------------------------------------
\* ExactVersion.

ExactVersion(major, minor) == [major |-> major, minor |-> minor]

\* to_string with the two components exchanged.
ExactVersion_to_string_swapped(self) ==
  fmt_ComponentSize(self.minor) \o <<".">> \o fmt_ComponentSize(self.major)

ExactVersion_to_string(self) ==
  fmt_ComponentSize(self.major) \o <<".">> \o fmt_ComponentSize(self.minor)

\* from_str that splits at the last '.' (rfind) instead of the first.
ExactVersion_from_str_last_dot(version_string_) ==
  LET s == version_string_
      dot_index == CHOOSE i \in 0..Len(s) :
                     /\ i = 0 => ~contains(s, ".")
                     /\ i > 0 => s[i] = "." /\ \A j \in (i + 1)..Len(s) : s[j] # "."
  IN  IF dot_index # 0
      THEN LET major == parse_ComponentSize(SubSeq(s, 1, dot_index - 1))
               minor == parse_ComponentSize(SubSeq(s, dot_index + 1, Len(s)))
           IN  IF ~major.ok THEN Err(ParseVersionComponentError(major.err))
               ELSE IF minor.ok THEN Ok(ExactVersion(major.val, minor.val))
               ELSE Err(ParseVersionComponentError(minor.err))
      ELSE Err(DotMissing)

ExactVersion_from_str(version_string_) ==
  LET dot_index == find(version_string_, ".")
  IN  IF dot_index # 0
      THEN LET major_str == SubSeq(version_string_, 1, dot_index - 1)
               major == parse_ComponentSize(major_str)
           IN  IF ~major.ok THEN Err(ParseVersionComponentError(major.err))
               ELSE LET minor_str == SubSeq(version_string_, dot_index + 1,
                                            Len(version_string_))
                        minor == parse_ComponentSize(minor_str)
                    IN  IF minor.ok THEN Ok(ExactVersion(major.val, minor.val))
                        ELSE Err(ParseVersionComponentError(minor.err))
      ELSE Err(DotMissing)

\* A path is its directory (an index of the search path, 0 for none) and its
\* last component.  Path::file_name is Some only for a normal last component
\* (None for "/" and for a path that ends in "..").
NormalPath(dir, name) == [dir |-> dir, last |-> [kind |-> "Normal", name |-> name]]
RootPath == [dir |-> 0, last |-> [kind |-> "RootDir", name |-> <<>>]]
ParentDirPath(dir) == [dir |-> dir, last |-> [kind |-> "ParentDir", name |-> <<>>]]

file_name(path_) ==
  IF path_.last.kind = "Normal" THEN Some(path_.last.name) ELSE None

\* from_path without the test of the length of the file name.
ExactVersion_from_path_no_length_check(path_) ==
  LET raw_file_name == file_name(path_)
  IN  IF raw_file_name.some
      THEN LET file_name_ == to_str(raw_file_name.val)
           IN  IF file_name_.some
               THEN IF starts_with(file_name_.val, Python)
                    THEN ExactVersion_from_str(
                           SubSeq(file_name_.val, Len(Python) + 1, Len(file_name_.val)))
                    ELSE Err(PathFileNameError)
               ELSE Err(FileNameToStrError)
      ELSE Err(FileNameMissing)

ExactVersion_from_path(path_) ==
  LET raw_file_name == file_name(path_)
  IN  IF raw_file_name.some
      THEN LET file_name_ == to_str(raw_file_name.val)
           IN  IF file_name_.some
               THEN IF /\ StrLen(file_name_.val) >= StrLen(Python3_0)
                       /\ starts_with(file_name_.val, Python)
                    THEN LET version_part ==
                               SubSeq(file_name_.val, Len(Python) + 1, Len(file_name_.val))
                         IN  ExactVersion_from_str(version_part)
                    ELSE Err(PathFileNameError)
               ELSE Err(FileNameToStrError)
      ELSE Err(FileNameMissing)

----------------------------------------------------------------------------
\* RequestedVersion.

Any == [tag |-> "Any"]
MajorOnly(major) == [tag |-> "MajorOnly", major |-> major]
Exact(major, minor) == [tag |-> "Exact", major |-> major, minor |-> minor]

RequestedVersion_from_str(version_string_) ==
  IF version_string_ = <<>> THEN Ok(Any)
  ELSE IF contains(version_string_, ".")
  THEN LET exact_version == ExactVersion_from_str(version_string_)
       IN  IF exact_version.ok
           THEN Ok(Exact(exact_version.val.major, exact_version.val.minor))
           ELSE exact_version
  ELSE LET number == parse_ComponentSize(version_string_)
       IN  IF number.ok THEN Ok(MajorOnly(number.val))
           ELSE Err(ParseVersionComponentError(number.err))

\* supports that compares only the major version of an Exact request.
supports_major_only(self, requested_) ==
  CASE requested_.tag = "Any" -> TRUE
    [] requested_.tag = "MajorOnly" -> self.major = requested_.major
    [] requested_.tag = "Exact" -> self.major = requested_.major

\* supports that lets every version satisfy a MajorOnly request.
supports_any_major(self, requested_) ==
  CASE requested_.tag = "Any" -> TRUE
    [] requested_.tag = "MajorOnly" -> TRUE
    [] requested_.tag = "Exact" ->
         self.major = requested_.major /\ self.minor = requested_.minor

supports(self, requested_) ==
  CASE requested_.tag = "Any" -> TRUE
    [] requested_.tag = "MajorOnly" -> self.major = requested_.major
    [] requested_.tag = "Exact" ->
         self.major = requested_.major /\ self.minor = requested_.minor

----------------------------------------------------------------------------
\* Ordering (derive(PartialOrd, Ord) on ExactVersion; tuples; PathBuf).

CmpNat(a, b) == IF a < b THEN "Less" ELSE IF a > b THEN "Greater" ELSE "Equal"

\* The characters in the order of their first UTF-8 byte.
CharOrder == <<"+", "-", ".", "0", "1", "2", "3", "4", "5", "6", "7", "8", "9",
               "P", "h", "n", "o", "p", "t", "x", "y", "e_acute", "0xFF">>
CharOrd(c) == CHOOSE i \in 1..Len(CharOrder) : CharOrder[i] = c

RECURSIVE CmpStr(_, _)
CmpStr(s, t) ==
  IF s = <<>> THEN (IF t = <<>> THEN "Equal" ELSE "Less")
  ELSE IF t = <<>> THEN "Greater"
  ELSE IF CmpNat(CharOrd(Head(s)), CharOrd(Head(t))) # "Equal"
       THEN CmpNat(CharOrd(Head(s)), CharOrd(Head(t)))
       ELSE CmpStr(Tail(s), Tail(t))

KindOrd(kind) == CASE kind = "RootDir" -> 1 [] kind = "ParentDir" -> 2 [] kind = "Normal" -> 3

CmpPath(p, q) ==
  IF CmpNat(p.dir, q.dir) # "Equal" THEN CmpNat(p.dir, q.dir)
  ELSE IF CmpNat(KindOrd(p.last.kind), KindOrd(q.last.kind)) # "Equal"
       THEN CmpNat(KindOrd(p.last.kind), KindOrd(q.last.kind))
       ELSE CmpStr(p.last.name, q.last.name)

\* The order of a struct whose fields are declared minor first.
CmpExactVersion_minor_first(a, b) ==
  IF CmpNat(a.minor, b.minor) # "Equal" THEN CmpNat(a.minor, b.minor)
  ELSE CmpNat(a.major, b.major)

CmpExactVersion(a, b) ==
  IF CmpNat(a.major, b.major) # "Equal" THEN CmpNat(a.major, b.major)
  ELSE CmpNat(a.minor, b.minor)

\* Ord for the (&ExactVersion, &PathBuf) pairs HashMap::iter() yields.
CmpPair(x, y) ==
  IF CmpExactVersion(x[1], y[1]) # "Equal" THEN CmpExactVersion(x[1], y[1])
  ELSE CmpPath(x[2], y[2])

----------------------------------------------------------------------------
\* Executable discovery.

EmptyMap == [k \in {} |-> None]

\* HashMap::insert, which replaces the value of a key already present.
insert(map, key, value) ==
  [k \in DOMAIN map \cup {key} |-> IF k = key THEN value ELSE map[k]]

\* executables.entry(version).or_insert(path)
or_insert(map, key, value) ==
  IF key \in DOMAIN map THEN map
  ELSE [k \in DOMAIN map \cup {key} |-> IF k = key THEN value ELSE map[k]]

\* A directory of the search path: whether read_dir succeeds on it, and the
\* io::Result<DirEntry> items its ReadDir yields, in the platform's order.
EntryOk(name) == [ok |-> TRUE, name |-> name]
EntryErr == [ok |-> FALSE, name |-> <<>>]

RECURSIVE EntryPaths(_, _)
EntryPaths(dir, entries) ==
  IF entries = <<>> THEN <<>>
  ELSE IF Head(entries).ok
       THEN <<NormalPath(dir, Head(entries).name)>> \o EntryPaths(dir, Tail(entries))
       ELSE EntryPaths(dir, Tail(entries))

\* A flattening that gives up at the first directory read_dir fails on.
flatten_directory_until_error(dirs, i) ==
  IF \E j \in 1..i : ~dirs[j].readable THEN <<>>
  ELSE EntryPaths(i, dirs[i].entries)

\* What flatten_directories yields for the i-th directory of the search path.
flatten_directory(dirs, i) ==
  IF dirs[i].readable THEN EntryPaths(i, dirs[i].entries) ELSE <<>>

\* The body of the for loop of all_executables_in_paths.
scan_path(map, path_) ==
  LET version == ExactVersion_from_path(path_)
  IN  IF version.ok THEN or_insert(map, version.val, path_) ELSE map

----------------------------------------------------------------------------
\* Resolution.

\* Iterator::max: the last of the greatest items, None for an empty iterator.
RECURSIVE MaxFrom(_, _, _)
MaxFrom(items, i, best) ==
  IF i > Len(items) THEN best
  ELSE IF CmpPair(best, items[i]) = "Greater" THEN MaxFrom(items, i + 1, best)
  ELSE MaxFrom(items, i + 1, items[i])

iter_max(items) ==
  IF items = <<>> THEN None ELSE Some(MaxFrom(items, 2, items[1]))

RECURSIVE iter_filter(_, _)
iter_filter(items, requested_) ==
  IF items = <<>> THEN <<>>
  ELSE IF supports(Head(items)[1], requested_)
       THEN <<Head(items)>> \o iter_filter(Tail(items), requested_)
       ELSE iter_filter(Tail(items), requested_)

RECURSIVE iter_find(_, _)
iter_find(items, requested_) ==
  IF items = <<>> THEN None
  ELSE IF supports(Head(items)[1], requested_) THEN Some(Head(items))
  ELSE iter_find(Tail(items), requested_)

\* `order` is the order in which found_executables.iter() yields the keys.
find_executable_in_hashmap(requested_, found_executables, order) ==
  LET iter == [i \in 1..Len(order) |-> <<order[i], found_executables[order[i]]>>]
      pair == CASE requested_.tag = "Any" -> iter_max(iter)
                [] requested_.tag = "MajorOnly" -> iter_max(iter_filter(iter, requested_))
                [] requested_.tag = "Exact" -> iter_find(iter, requested_)
  IN  IF pair.some THEN Some(pair.val[2]) ELSE None

----------------------------------------------------------------------------
\* Inputs.

Str3_6 == <<"3", ".", "6">>
Str2_7 == <<"2", ".", "7">>
Str3_7 == <<"3", ".", "7">>

\* File names a directory may hold.
EntryNames ==
  { Python \o Str3_6,
    Python \o Str2_7,
    Python \o <<"+">> \o Str3_6,
    Python \o <<"3">> }

Entries == {EntryOk(n) : n \in EntryNames} \cup {EntryErr}

SeqsUpTo(S, n) == UNION {[1..k -> S] : k \in 0..n}

\* A directory holds no two entries of the same name.
Listings ==
  { l \in SeqsUpTo(Entries, MaxEntries) :
      \A i, j \in 1..Len(l) : (i # j /\ l[i].ok /\ l[j].ok) => l[i].name # l[j].name }

Directories == [readable : BOOLEAN, entries : Listings]

SearchPaths == SeqsUpTo(Directories, MaxDirs)

\* Paths handed to all_executables_in_paths directly.
PathPool ==
  { NormalPath(1, Python \o Str2_7),
    NormalPath(1, Python \o Str3_6),
    NormalPath(2, Python \o Str3_6),
    NormalPath(2, Python \o Str3_7),
    NormalPath(2, Python \o <<"+">> \o Str3_6),
    NormalPath(1, <<"n", "o", "t">> \o Python),
    RootPath }

PathSeqs == SeqsUpTo(PathPool, MaxPaths)

\* Discovery maps handed to find_executable_in_hashmap.
KeyPool ==
  { ExactVersion(2, 7), ExactVersion(3, 6), ExactVersion(3, 9),
    ExactVersion(3, 10), ExactVersion(9, 9), ExactVersion(10, 0) }

ValuePool == { NormalPath(0, Python \o Str3_6), NormalPath(0, Python \o Str3_7) }

Maps ==
  UNION { [K -> ValuePool] : K \in {S \in SUBSET KeyPool : Cardinality(S) <= MaxMapSize} }

Requests ==
  {Any} \cup {MajorOnly(m) : m \in {2, 3, 10, 42}}
        \cup {Exact(3, 6), Exact(3, 8), Exact(3, 10), Exact(10, 0), Exact(9, 6)}

\* The orders in which a HashMap may yield the keys K.
IterOrders(K) ==
  { o \in [1..Cardinality(K) -> K] : \A i, j \in 1..Cardinality(K) : o[i] = o[j] => i = j }

\* Strings handed to the parsers: every short string over Alphabet, the
\* strings of the unit tests, and decimal renderings around the range of u16.
Alphabet == {"0", "3", ".", "+", "-", "x", "e_acute"}

BoundaryNumbers == {0, 7, 10, 42, 65535, 65536, 70000}

Decimals == {fmt_ComponentSize(n) : n \in BoundaryNumbers}

TestStrings ==
  { <<"3", ".", "6", ".", "5">>, <<"4", "2", ".", "1", "3">>, <<"3", ".", "8">>,
    <<"x", ".", "y">>, <<"3", ".", "y">>, <<"h">>, <<"0", "3", ".", "0", "6">> }

VersionStrings ==
  SeqsUpTo(Alphabet, MaxLen) \cup TestStrings \cup Decimals
    \cup {a \o <<".">> \o b : a \in Decimals, b \in Decimals}
    \cup {<<"+">> \o a : a \in Decimals}

\* The paths built around a string: the file names that wrap it, and the
\* paths that have no file name.
Prefixes ==
  { Python, <<>>, <<"p", "y", "t", "h", "o">>, <<"P", "y", "t", "h", "o", "n">>,
    <<"x">> \o Python, Python \o <<"0xFF">>, <<"0xFF">> }

PathsFor(s) ==
  {NormalPath(1, prefix \o s) : prefix \in Prefixes} \cup {RootPath, ParentDirPath(1)}

----------------------------------------------------------------------------
\* Discovery: all_executables over a search path (Spec), and
\* all_executables_in_paths over a given sequence of paths (SpecPaths).

NoResult == [ok |-> FALSE, err |-> [kind |-> "none"]]

Idle ==
  /\ requested = Any
  /\ iter_order = <<>>
  /\ found = None
  /\ version_string = <<>>
  /\ path = RootPath
  /\ outcome = NoResult
  /\ text = <<>>
  /\ reparsed = NoResult

Init ==
  /\ pc = "scan"
  /\ directories \in SearchPaths
  /\ dir_index = 0
  /\ paths = <<>>
  /\ path_index = 0
  /\ executables = EmptyMap
  /\ Idle

\* The flattened iterator is lazy: the next directory is read when the for
\* loop has consumed every path yielded so far.
ReadDir ==
  /\ pc = "scan"
  /\ path_index = Len(paths)
  /\ dir_index < Len(directories)
  /\ dir_index' = dir_index + 1
  /\ paths' = paths \o flatten_directory(directories, dir_index + 1)
  /\ UNCHANGED <<pc, directories, path_index, executables, findVars, parseVars>>

ScanPath ==
  /\ pc = "scan"
  /\ path_index < Len(paths)
  /\ path_index' = path_index + 1
  /\ executables' = scan_path(executables, paths[path_index + 1])
  /\ UNCHANGED <<pc, directories, dir_index, paths, findVars, parseVars>>

Return ==
  /\ pc = "scan"
  /\ path_index = Len(paths)
  /\ dir_index = Len(directories)
  /\ pc' = "done"
  /\ UNCHANGED <<discoveryVars, executables, findVars, parseVars>>

Next == ReadDir \/ ScanPath \/ Return

Spec == Init /\ [][Next]_vars

InitPaths ==
  /\ pc = "scan"
  /\ directories = <<>>
  /\ dir_index = 0
  /\ paths \in PathSeqs
  /\ path_index = 0
  /\ executables = EmptyMap
  /\ Idle

NextPaths == ScanPath \/ Return

SpecPaths == InitPaths /\ [][NextPaths]_vars

----------------------------------------------------------------------------
\* Resolution: find_executable_in_hashmap over a map and a request (SpecFind).

InitFind ==
  /\ pc = "start"
  /\ directories = <<>>
  /\ dir_index = 0
  /\ paths = <<>>
  /\ path_index = 0
  /\ executables = EmptyMap
  /\ Idle

FindExecutableInHashmap ==
  /\ pc = "start"
  /\ \E map \in Maps, requested_ \in Requests :
       \E order \in IterOrders(DOMAIN map) :
         /\ executables' = map
         /\ requested' = requested_
         /\ iter_order' = order
         /\ found' = find_executable_in_hashmap(requested_, map, order)
  /\ pc' = "found"
  /\ UNCHANGED <<discoveryVars, parseVars>>

NextFind == FindExecutableInHashmap

SpecFind == InitFind /\ [][NextFind]_vars

----------------------------------------------------------------------------
\* The version model: the parsers and the formatter (SpecParse).

InitParse == InitFind

ExactFromStr ==
  /\ pc = "start"
  /\ \E s \in VersionStrings :
       /\ version_string' = s
       /\ outcome' = ExactVersion_from_str(s)
  /\ pc' = "ExactVersion::from_str"
  /\ UNCHANGED <<discoveryVars, executables, findVars, path, text, reparsed>>

\* to_string of the ExactVersion just parsed.
ExactToString ==
  /\ pc = "ExactVersion::from_str"
  /\ outcome.ok
  /\ text' = ExactVersion_to_string(outcome.val)
  /\ pc' = "ExactVersion::to_string"
  /\ UNCHANGED <<discoveryVars, executables, findVars, version_string, path, outcome,
                 reparsed>>

\* from_str of the string just formatted.
ReparseText ==
  /\ pc = "ExactVersion::to_string"
  /\ reparsed' = ExactVersion_from_str(text)
  /\ pc' = "reparsed"
  /\ UNCHANGED <<discoveryVars, executables, findVars, version_string, path, outcome,
                 text>>

RequestedFromStr ==
  /\ pc = "start"
  /\ \E s \in VersionStrings :
       /\ version_string' = s
       /\ outcome' = RequestedVersion_from_str(s)
  /\ pc' = "RequestedVersion::from_str"
  /\ UNCHANGED <<discoveryVars, executables, findVars, path, text, reparsed>>

ExactFromPath ==
  /\ pc = "start"
  /\ \E s \in VersionStrings :
       \E p \in PathsFor(s) :
         /\ path' = p
         /\ outcome' = ExactVersion_from_path(p)
  /\ pc' = "ExactVersion::from_path"
  /\ UNCHANGED <<discoveryVars, executables, findVars, version_string, text, reparsed>>

NextParse ==
  ExactFromStr \/ ExactToString \/ ReparseText \/ RequestedFromStr \/ ExactFromPath

SpecParse == InitParse /\ [][NextParse]_vars

----------------------------------------------------------------------------
\* Properties of all_executables_in_paths (SpecPaths).

ParsesTo(p, v) ==
  LET r == ExactVersion_from_path(p) IN r.ok /\ r.val = v

ParsedVersions(ps) ==
  { ExactVersion_from_path(ps[i]).val :
      i \in {j \in 1..Len(ps) : ExactVersion_from_path(ps[j]).ok} }

FirstIndex(ps, v) ==
  CHOOSE i \in 1..Len(ps) :
    ParsesTo(ps[i], v) /\ \A j \in 1..(i - 1) : ~ParsesTo(ps[j], v)

\* C1: after all_executables_in_paths has consumed a prefix of the sequence of
\* paths (the whole sequence when it returns), the keys of the map are exactly
\* the versions parsed from that prefix, and each version is mapped to the
\* first path of the sequence that parses to it; a later path parsing to the
\* same version never replaces it.
C1_FirstPathWins ==
  LET seen == SubSeq(paths, 1, path_index)
  IN  /\ DOMAIN executables = ParsedVersions(seen)
      /\ \A v \in DOMAIN executables : executables[v] = paths[FirstIndex(seen, v)]

C1_Witness ==
  /\ pc = "done"
  /\ \E i, j \in 1..Len(paths) :
       /\ i < j
       /\ paths[i] # paths[j]
       /\ \E v \in DOMAIN executables :
            /\ ParsesTo(paths[i], v)
            /\ ParsesTo(paths[j], v)
            /\ executables[v] = paths[i]

----------------------------------------------------------------------------
\* Properties of all_executables (Spec).

\* The versions the entries of the d-th directory parse to.
VersionsIn(d) ==
  { v \in ParsedVersions(EntryPaths(d, directories[d].entries)) : TRUE }

HoldsVersion(d, v) == directories[d].readable /\ v \in VersionsIn(d)

\* C8: all_executables ends in no error state; when it returns, the keys of
\* the map are the versions found in the readable directories (an unreadable
\* directory contributes nothing and does not stop the scan of the later
\* ones), and each version is mapped to a path of the earliest directory that
\* is readable and holds an entry parsing to that version.
C8_EarliestReadableDirectory ==
  /\ pc \in {"scan", "done"}
  /\ pc = "done" =>
       /\ DOMAIN executables =
            UNION {VersionsIn(d) : d \in {e \in 1..Len(directories) : directories[e].readable}}
       /\ \A v \in DOMAIN executables :
            LET d == executables[v].dir
            IN  /\ d \in 1..Len(directories)
                /\ HoldsVersion(d, v)
                /\ ParsesTo(executables[v], v)
                /\ \A e \in 1..(d - 1) : ~HoldsVersion(e, v)

C8_Witness ==
  /\ pc = "done"
  /\ Len(directories) >= 2
  /\ ~directories[1].readable
  /\ directories[2].readable
  /\ \E v \in DOMAIN executables :
       /\ v \in VersionsIn(1)
       /\ v \in VersionsIn(2)
       /\ executables[v].dir = 2

AllDigits(s) == s # <<>> /\ \A i \in 1..Len(s) : s[i] \in Digits

\* "python" followed by <major>.<minor>, both non-empty strings of digits.
IsPythonMajorMinor(name) ==
  /\ starts_with(name, Python)
  /\ \E k \in (Len(Python) + 1)..Len(name) :
       /\ name[k] = "."
       /\ AllDigits(SubSeq(name, Len(Python) + 1, k - 1))
       /\ AllDigits(SubSeq(name, k + 1, Len(name)))

\* C9: every path in the discovery map has a file name that is exactly
\* "python" followed by <major>.<minor>, where major and minor are non-empty
\* strings of decimal digits.
C9_OnlyPythonMajorMinor ==
  \A v \in DOMAIN executables :
    /\ executables[v].last.kind = "Normal"
    /\ IsPythonMajorMinor(executables[v].last.name)

----------------------------------------------------------------------------
\* Properties of find_executable_in_hashmap (SpecFind).

\* Major first, then minor, both compared as numbers.
VersionLeq(a, b) ==
  \/ a.major < b.major
  \/ a.major = b.major /\ a.minor <= b.minor

Greatest(K) == CHOOSE k \in K : \A other \in K : VersionLeq(other, k)

\* C2: for a non-empty map and the request Any, the result is the path stored
\* under the greatest key (major first, then minor, as numbers), whatever the
\* order of iteration and whatever the paths.
C2_AnyPicksGreatestKey ==
  (pc = "found" /\ requested = Any /\ DOMAIN executables # {}) =>
    found = Some(executables[Greatest(DOMAIN executables)])

C2_Witness ==
  /\ pc = "found"
  /\ requested = Any
  /\ {ExactVersion(3, 9), ExactVersion(3, 10)} \subseteq DOMAIN executables
  /\ Greatest(DOMAIN executables) = ExactVersion(3, 10)
  /\ iter_order[1] = ExactVersion(3, 10)
  /\ executables[ExactVersion(3, 10)] # executables[ExactVersion(3, 9)]
  /\ found = Some(executables[ExactVersion(3, 10)])

WithMajor(K, m) == {k \in K : k.major = m}

\* C3: for the request MajorOnly(m) and a map with a key of major m, the
\* result is the path stored under the key of major m with the highest minor,
\* also when keys of a larger major are present.
C3_MajorOnlyPicksHighestMinor ==
  (/\ pc = "found"
   /\ requested.tag = "MajorOnly"
   /\ WithMajor(DOMAIN executables, requested.major) # {}) =>
    LET k == Greatest(WithMajor(DOMAIN executables, requested.major))
    IN  /\ k.major = requested.major
        /\ found = Some(executables[k])

C3_Witness ==
  /\ pc = "found"
  /\ requested = MajorOnly(3)
  /\ DOMAIN executables = {ExactVersion(3, 9), ExactVersion(3, 10), ExactVersion(10, 0)}
  /\ executables[ExactVersion(3, 10)] # executables[ExactVersion(10, 0)]
  /\ found = Some(executables[ExactVersion(3, 10)])

Satisfies(k, r) ==
  \/ r.tag = "Any"
  \/ r.tag = "MajorOnly" /\ k.major = r.major
  \/ r.tag = "Exact" /\ k.major = r.major /\ k.minor = r.minor

\* C4: the result is None exactly when no key of the map satisfies the
\* request, it is always an Option (never an error), and for Exact(m, n) with
\* the key (m, n) present it is the path stored under (m, n).
C4_NoneIffNoKeySatisfies ==
  pc = "found" =>
    /\ found = None \/ (found.some /\ found.val \in {executables[k] : k \in DOMAIN executables})
    /\ found = None <=> ~\E k \in DOMAIN executables : Satisfies(k, requested)
    /\ (/\ requested.tag = "Exact"
        /\ ExactVersion(requested.major, requested.minor) \in DOMAIN executables) =>
         found = Some(executables[ExactVersion(requested.major, requested.minor)])

C4_Witness ==
  /\ pc = "found"
  /\ requested = Exact(3, 8)
  /\ {ExactVersion(3, 6), ExactVersion(3, 9)} \subseteq DOMAIN executables
  /\ found = None

----------------------------------------------------------------------------
\* Properties of the version model (SpecParse).

\* A canonical decimal numeral: digits only, no leading zero but for "0".
IsCanonicalDecimal(s) == AllDigits(s) /\ (Len(s) > 1 => s[1] # "0")

\* The number a string of digits denotes.
RECURSIVE DecimalValue(_)
DecimalValue(s) ==
  IF s = <<>> THEN 0
  ELSE 10 * DecimalValue(SubSeq(s, 1, Len(s) - 1)) + DigitValue(s[Len(s)])

Before(s, k) == SubSeq(s, 1, k - 1)
After(s, k) == SubSeq(s, k + 1, Len(s))

\* The positions of the '.' of a string of the form <digits>.<digits>.
DigitsDotDigits(s) ==
  {k \in 1..Len(s) : s[k] = "." /\ AllDigits(Before(s, k)) /\ AllDigits(After(s, k))}

\* The position of the '.' of a canonical "<a>.<b>" (no position otherwise).
CanonicalDot(s) ==
  {k \in DigitsDotDigits(s) :
     IsCanonicalDecimal(Before(s, k)) /\ IsCanonicalDecimal(After(s, k))}

\* C5 (as amended): for all a and b in 0..65535, from_str of the canonical
\* "<a>.<b>" is Ok with major a and minor b; to_string of a version is the
\* canonical "<major>.<minor>"; so parsing a canonical string and formatting
\* the result gives the string back, and formatting a version and parsing the
\* result gives the version back.
C5_RoundTripWithinU16 ==
  /\ pc = "ExactVersion::from_str" =>
       \A k \in CanonicalDot(version_string) :
         LET a == DecimalValue(Before(version_string, k))
             b == DecimalValue(After(version_string, k))
         IN  (a <= U16_MAX /\ b <= U16_MAX) => outcome = Ok(ExactVersion(a, b))
  /\ pc \in {"ExactVersion::to_string", "reparsed"} =>
       /\ CanonicalDot(text) # {}
       /\ \A k \in CanonicalDot(text) :
            /\ DecimalValue(Before(text, k)) = outcome.val.major
            /\ DecimalValue(After(text, k)) = outcome.val.minor
       /\ CanonicalDot(version_string) # {} => text = version_string
  /\ pc = "reparsed" => reparsed = outcome

C5_Witness ==
  /\ pc = "reparsed"
  /\ CanonicalDot(version_string) # {}
  /\ outcome = Ok(ExactVersion(U16_MAX, 42))
  /\ text = version_string
  /\ reparsed = outcome

\* C5 (as claimed): for all non-negative integers a and b, from_str of the
\* canonical "<a>.<b>" is Ok with major a and minor b.
C5_RoundTripAllNaturals ==
  pc = "ExactVersion::from_str" =>
    \A k \in CanonicalDot(version_string) :
      outcome = Ok(ExactVersion(DecimalValue(Before(version_string, k)),
                                DecimalValue(After(version_string, k))))

\* C6: RequestedVersion::from_str gives Any for the empty string,
\* MajorOnly(n) for a string of decimal digits only, Exact(a, b) for
\* "<digits>.<digits>", and a parse error for every other string.
C6_ThreeShapesOnly ==
  pc = "RequestedVersion::from_str" =>
    LET s == version_string
    IN  /\ s = <<>> => outcome = Ok(Any)
        /\ AllDigits(s) => outcome = Ok(MajorOnly(DecimalValue(s)))
        /\ \A k \in DigitsDotDigits(s) :
             outcome = Ok(Exact(DecimalValue(Before(s, k)), DecimalValue(After(s, k))))
        /\ (s # <<>> /\ ~AllDigits(s) /\ DigitsDotDigits(s) = {}) => ~outcome.ok

\* The outcome of from_str on the text after "python".
AfterPython(name) == ExactVersion_from_str(SubSeq(name, Len(Python) + 1, Len(name)))

IsValidUnicode(name) == \A i \in 1..Len(name) : name[i] # "0xFF"

\* C7 (as amended): from_path gives FileNameMissing when the path has no final
\* component; else FileNameToStrError when the file name is not valid
\* Unicode; else PathFileNameError when the file name is shorter than 9 bytes
\* of UTF-8 or does not start with "python"; else exactly the outcome of
\* from_str on the text after "python".
C7_FromPathOutcome ==
  pc = "ExactVersion::from_path" =>
    outcome =
      IF path.last.kind # "Normal" THEN Err(FileNameMissing)
      ELSE IF ~IsValidUnicode(path.last.name) THEN Err(FileNameToStrError)
      ELSE IF StrLen(path.last.name) < 9 \/ ~starts_with(path.last.name, Python)
           THEN Err(PathFileNameError)
      ELSE AfterPython(path.last.name)

C7_Witness ==
  /\ pc = "ExactVersion::from_path"
  /\ path.last.kind = "Normal"
  /\ starts_with(path.last.name, Python)
  /\ Len(path.last.name) < 9
  /\ StrLen(path.last.name) >= 9
  /\ outcome = Err(ParseVersionComponentError("InvalidDigit"))

\* C7 (as claimed): from_path gives FileNameMissing when the path has no final
\* component; else PathFileNameError when the file name is shorter than 9
\* characters or does not start with "python"; else exactly the outcome of
\* from_str on the text after "python".
C7_FromPathThreeOutcomes ==
  pc = "ExactVersion::from_path" =>
    outcome =
      IF path.last.kind # "Normal" THEN Err(FileNameMissing)
      ELSE IF Len(path.last.name) < 9 \/ ~starts_with(path.last.name, Python)
           THEN Err(PathFileNameError)
      ELSE AfterPython(path.last.name)

DotPositions(s) == {i \in 1..Len(s) : s[i] = "."}

FirstDot(s) == CHOOSE k \in DotPositions(s) : \A i \in DotPositions(s) : k <= i

====
